---- MODULE Spec2Model ----
(***************************************************************************)
(* Model of the mobility recommender.  mobility_sort_new.py: the device   *)
(* filter, the fee calculator, the score engine, the ranker and the script *)
(* that chains them.  mobility_sort.py: recommend() and the functions it   *)
(* calls.                                                                  *)
(*                                                                         *)
(* Numbers.  Python floats are modelled by exact rationals kept in lowest  *)
(* terms, [num, den] with den > 0, so that equal values are equal records. *)
(* Coordinates lie on one meridian and are measured in metres of arc, so   *)
(* the haversine distance of two points is the absolute difference of      *)
(* their latitudes.                                                        *)
(***************************************************************************)
EXTENDS Integers, Sequences, FiniteSets, TLC

VARIABLES
    devices,    \* the Device objects, by reference (index): the loaded feed
    start,      \* src Point of the query
    dest,       \* dst Point of the query
    now,        \* hour of the timestamp handed to getPrices
    caller,     \* "main": the script's call of getPrices; "api": a call with all
                \* arguments; "recommend": recommend() of mobility_sort.py
    nearby,     \* list of references returned by filterDevices
    path_m,     \* trip distance returned by getTmapDistance
    ranked,     \* list of references returned by quicksort
    pc,         \* position of the run
    err,        \* exception that ended the run, "none" otherwise
    near,       \* recommend (mobility_sort.py): the copies of the devices within reach
    algo,       \* recommend (mobility_sort.py): the algorithm handed to sort_devices
    route,      \* how the route request ended: "none" (not made), "ok", "failed"
    is_dark,    \* value returned by a call of isNight
    procs,      \* the local state of each of the pipelines run side by side
    stack,      \* the pending calls of quicksort run step by step
    calls       \* functions whose body has run, in order

vars == <<devices, start, dest, now, caller, nearby, path_m, ranked, pc, err, near, algo,
         route, is_dark, procs, stack, calls>>

---------------------------------------------------------------------------
(* Bounds of the model *)

MaxDevices == 2     \* devices in the feed of a pipeline run
MaxFeed == 3        \* devices handed to filterDevices alone
MaxCandidates == 3  \* candidates handed to getPrices / computeScore alone
MaxLen == 4         \* devices handed to quicksort alone

(* Program constants *)

RADIUS_METERS == 500
AVG_SCOOTER_SPEED_M_PER_MIN == 250
NIGHT_START_HOUR == 22
NIGHT_END_HOUR == 6
MIN_BATTERY_PERCENTAGE == 10
RelTolInv == 1000000000     \* 1 / rel_tol of math.isclose (rel_tol = 1e-09, abs_tol = 0)

---------------------------------------------------------------------------
(* Exact arithmetic standing for float arithmetic *)

Abs(n) == IF n < 0 THEN -n ELSE n

RECURSIVE GCD(_, _)
GCD(a, b) == IF b = 0 THEN a ELSE GCD(b, a % b)

Rat(n, d) ==
    LET g == GCD(Abs(n), d)
    IN  [num |-> n \div g, den |-> d \div g]

RatInt(n) == [num |-> n, den |-> 1]

RatAdd(a, b) == Rat(a.num * b.den + b.num * a.den, a.den * b.den)
RatMul(a, b) == Rat(a.num * b.num, a.den * b.den)

\* a / b < c / d for b, d > 0, by integer parts and then the reciprocals of the
\* fractional parts, so that no product is formed
RECURSIVE FracLess(_, _, _, _)
FracLess(a, b, c, d) ==
    IF a \div b # c \div d THEN a \div b < c \div d
    ELSE IF c % d = 0 THEN FALSE
    ELSE IF a % b = 0 THEN TRUE
    ELSE FracLess(d, c % d, b, a % b)

RatLess(a, b) == FracLess(a.num, a.den, b.num, b.den)
RatMax(a, b) == IF RatLess(a, b) THEN b ELSE a

\* math.ceil of a rational
Ceil(r) == -((-r.num) \div r.den)

\* math.isclose(a, b): a == b, or |a - b| <= rel_tol * max(|a|, |b|)
isclose(a, b) ==
    \/ a = b
    \/ LET x == a.num * b.den
           y == b.num * a.den
           m == IF Abs(x) < Abs(y) THEN Abs(y) ELSE Abs(x)
       IN  Abs(x - y) <= m \div RelTolInv

---------------------------------------------------------------------------
(* Data *)

Point(x, y) == [x |-> x, y |-> y]

\* Device(id, provider, lat, lon, battery): price, dist and score take their defaults
Device(id, provider, lat, lon, battery) ==
    [id |-> id, provider |-> provider, lat |-> lat, lon |-> lon, battery |-> battery,
     price |-> 0, dist |-> 0, score |-> RatInt(0)]

PROVIDER_FEES ==
    [k \in {"alpaca", "gcoo_day", "gcoo_night", "socarelecle_day", "socarelecle_night",
            "xingxing", "kickgoing", "swing"} |->
        CASE k = "alpaca"            -> [base |-> 500,  per_min |-> 150]
          [] k = "gcoo_day"          -> [base |-> 800,  per_min |-> 180]
          [] k = "gcoo_night"        -> [base |-> 1200, per_min |-> 180]
          [] k = "socarelecle_day"   -> [base |-> 500,  per_min |-> 150]
          [] k = "socarelecle_night" -> [base |-> 1500, per_min |-> 150]
          [] k = "xingxing"          -> [base |-> 1500, per_min |-> 200]
          [] k = "kickgoing"         -> [base |-> 1000, per_min |-> 120]
          [] k = "swing"             -> [base |-> 1200, per_min |-> 150]]

---------------------------------------------------------------------------
(* Pure functions *)

\* a timestamp is a record of its hour and minute; None is the argument left out
None == [none |-> TRUE]

\* now = now or _dt.datetime.now(KST): a datetime object is always true, so
\* the clock is read only when no timestamp is given
nowOrClock(stamp, clock) == IF stamp = None THEN clock ELSE stamp

\* night from 23:00 only
isNightExclusive(hour) == hour > NIGHT_START_HOUR \/ hour < NIGHT_END_HOUR

\* haversine distance of two points of one meridian, in metres
getDistance(p1, p2) == Abs(p2.x - p1.x)

isNight(hour) == hour >= NIGHT_START_HOUR \/ hour < NIGHT_END_HOUR

getRideMinutes(distance_m) == Rat(distance_m.num, distance_m.den * AVG_SCOOTER_SPEED_M_PER_MIN)

feeKey(provider, night) ==
    IF provider \in {"gcoo", "socarelecle"}
    THEN provider \o "_" \o (IF night THEN "night" ELSE "day")
    ELSE provider

\* PROVIDER_FEES[key] raises KeyError
feeKeyError(provider, night) == feeKey(provider, night) \notin DOMAIN PROVIDER_FEES

\* calculateFee billing only the full minutes
calculateFeeFloor(provider, minutes, night) ==
    LET fee == PROVIDER_FEES[feeKey(provider, night)]
    IN  fee.base + fee.per_min * (minutes.num \div minutes.den)

calculateFee(provider, minutes, night) ==
    LET fee == PROVIDER_FEES[feeKey(provider, night)]
    IN  fee.base + fee.per_min * Ceil(minutes)

Indices(n) == [i \in 1..n |-> i]


\* the Device objects after filterDevices(devs, st): dist is written on every
\* device that passes the battery gate, admitted or not
filterDevicesWrites(devs, st) ==
    [i \in DOMAIN devs |->
        IF devs[i].battery < MIN_BATTERY_PERCENTAGE
        THEN devs[i]
        ELSE [devs[i] EXCEPT !.dist = getDistance(st, Point(devs[i].lat, devs[i].lon))]]

\* filterDevices with the radius bound exclusive
filterDevicesExclusive(devs, st) ==
    LET after == filterDevicesWrites(devs, st)
        appended(i) == /\ ~(after[i].battery < MIN_BATTERY_PERCENTAGE)
                       /\ after[i].dist < RADIUS_METERS
    IN  SelectSeq(Indices(Len(devs)), appended)

\* the list filterDevices(devs, st) returns: references, in feed order
filterDevices(devs, st) ==
    LET after == filterDevicesWrites(devs, st)
        appended(i) == /\ ~(after[i].battery < MIN_BATTERY_PERCENTAGE)
                       /\ after[i].dist <= RADIUS_METERS
    IN  SelectSeq(Indices(Len(devs)), appended)

\* position in the list of the first device whose fee lookup raises KeyError,
\* Len + 1 when there is none
firstKeyError(devs, list, hour) ==
    LET bad == {k \in 1..Len(list) : feeKeyError(devs[list[k]].provider, isNight(hour))}
    IN  IF bad = {} THEN Len(list) + 1
        ELSE CHOOSE k \in bad : \A j \in bad : k <= j

\* getPrices passing over a device whose fee lookup fails
getPricesNeverRaises(devs, list, hour) == FALSE

getPricesRaises(devs, list, hour) == firstKeyError(devs, list, hour) <= Len(list)

\* the Device objects after getPrices(list, path, hour): the loop prices the
\* devices in list order and stops at the first KeyError
getPrices(devs, list, path, hour) ==
    LET minutes == getRideMinutes(path)
        night_flag == isNight(hour)
        stop == firstKeyError(devs, list, hour)
    IN  [i \in DOMAIN devs |->
            IF \E k \in 1..(stop - 1) : list[k] = i
            THEN [devs[i] EXCEPT !.price = calculateFee(devs[i].provider, minutes, night_flag)]
            ELSE devs[i]]

SeqMin(s) == CHOOSE v \in {s[k] : k \in DOMAIN s} : \A k \in DOMAIN s : v <= s[k]
SeqMax(s) == CHOOSE v \in {s[k] : k \in DOMAIN s} : \A k \in DOMAIN s : v >= s[k]

\* min(prices) raises ValueError on an empty list
computeScoreRaises(list) == list = <<>>

price_score(price, p_min, p_max) ==
    LET price_span == p_max - p_min
    IN  IF price_span = 0
        THEN RatInt(100)
        ELSE RatMul(Rat(p_max - price, price_span), RatInt(100))

dist_score(dist) ==
    RatMax(RatInt(0), RatMul(Rat(RADIUS_METERS - dist, RADIUS_METERS), RatInt(100)))

\* the 0.4 / 0.6 weighting
blendOther(ps, ds) == RatAdd(RatMul(ps, Rat(4, 10)), RatMul(ds, Rat(6, 10)))

blend(ps, ds) == RatAdd(RatMul(ps, Rat(2, 10)), RatMul(ds, Rat(8, 10)))

\* the Device objects after computeScore(list), list not empty
computeScore(devs, list) ==
    LET prices == [k \in DOMAIN list |-> devs[list[k]].price]
        p_min == SeqMin(prices)
        p_max == SeqMax(prices)
    IN  [i \in DOMAIN devs |->
            IF \E k \in DOMAIN list : list[k] = i
            THEN [devs[i] EXCEPT
                    !.score = blend(price_score(devs[i].price, p_min, p_max),
                                    dist_score(devs[i].dist))]
            ELSE devs[i]]

\* quicksort(list): the list of references it returns
RECURSIVE quicksort(_, _)
quicksort(devs, list) ==
    LET n == Len(list)
    IN  IF n <= 1
        THEN list
        ELSE LET pivot == devs[list[(n \div 2) + 1]].score
                 gt(i) == RatLess(pivot, devs[i].score)
                 close(i) == isclose(devs[i].score, pivot)
                 lt(i) == RatLess(devs[i].score, pivot)
             IN  quicksort(devs, SelectSeq(list, gt))
                 \o SelectSeq(list, close)
                 \o quicksort(devs, SelectSeq(list, lt))

\* the same function one call at a time: the score of the pivot devices[n // 2]
\* and the three lists built from it
pivotOf(devs, list) == devs[list[(Len(list) \div 2) + 1]].score

\* left with the devices whose score equals the pivot kept in
leftOrEqual(devs, list) ==
    LET ge(i) == ~RatLess(devs[i].score, pivotOf(devs, list))
    IN  SelectSeq(list, ge)

left(devs, list) ==
    LET gt(i) == RatLess(pivotOf(devs, list), devs[i].score)
    IN  SelectSeq(list, gt)

mid(devs, list) ==
    LET close(i) == isclose(devs[i].score, pivotOf(devs, list))
    IN  SelectSeq(list, close)

right(devs, list) ==
    LET lt(i) == RatLess(devs[i].score, pivotOf(devs, list))
    IN  SelectSeq(list, lt)

\* a pending call quicksort(list) made at recursion depth depth by a call on
\* a list of parent devices with pivot device pivotRef, or a list mid that
\* waits to be concatenated
Frame(kind, list, depth, parent, pivotRef) ==
    [kind |-> kind, list |-> list, depth |-> depth, parent |-> parent, pivotRef |-> pivotRef]

---------------------------------------------------------------------------
(* mobility_sort.py: the functions of recommend() *)

RECOMMEND_RADIUS_METERS == 100      \* RADIUS_METERS of mobility_sort.py
LOAD_BATTERY_GATE == 15             \* load_devices skips battery <= 15

haversine(lat1, lon1, lat2, lon2) == Abs(lat2 - lat1)

is_night(hour) == hour >= NIGHT_START_HOUR \/ hour < NIGHT_END_HOUR

estimate_ride_minutes(distance_m) ==
    Rat(distance_m.num, distance_m.den * AVG_SCOOTER_SPEED_M_PER_MIN)

calc_fee(provider, ride_minutes, night) ==
    LET key == IF provider \in {"gcoo", "socarelecle"}
               THEN provider \o "_" \o (IF night THEN "night" ELSE "day")
               ELSE provider
        fees == PROVIDER_FEES[key]
    IN  fees.base + fees.per_min * Ceil(ride_minutes)

\* str.lower() on the provider names of the feed
lower(name) ==
    CASE name = "Alpaca" -> "alpaca"
      [] name = "GCOO"   -> "gcoo"
      [] OTHER           -> name

\* int() of a non-negative float
IntPart(r) == r.num \div r.den

\* load_devices(): the items of the files, those with battery <= 15 left out
load_devices(items) ==
    LET kept(it) == ~(it.battery <= LOAD_BATTERY_GATE)
    IN  SelectSeq(items, kept)

\* the list near of recommend: a copy {**dev, "walk_dist": d} of every loaded
\* device with d <= RADIUS_METERS
nearCopies(items, st) ==
    LET loaded == load_devices(items)
        d(it) == haversine(st.x, st.y, it.lat, it.lon)
        within(it) == d(it) <= RECOMMEND_RADIUS_METERS
        kept == SelectSeq(loaded, within)
    IN  [k \in DOMAIN kept |-> kept[k] @@ [walk_dist |-> d(kept[k])]]

weight_device(device, walk_m, cost) ==
    RatAdd(Rat(1000, cost + 1), Rat(10000, walk_m + 1))

\* position in near of the first device whose calc_fee raises KeyError,
\* Len + 1 when there is none
firstFeeError(list, hour) ==
    LET bad == {k \in 1..Len(list) : feeKeyError(lower(list[k].provider), is_night(hour))}
    IN  IF bad = {} THEN Len(list) + 1
        ELSE CHOOSE k \in bad : \A j \in bad : k <= j

\* near after the loop that sets dev["cost"] and dev["weight"], which stops at
\* the first KeyError
costAndWeight(list, route_dist, hour) ==
    LET ride_min == estimate_ride_minutes(route_dist)
        night_flag == is_night(hour)
        stop == firstFeeError(list, hour)
    IN  [k \in DOMAIN list |->
            IF k < stop
            THEN LET cost == calc_fee(lower(list[k].provider), ride_min, night_flag)
                 IN  [cost |-> cost,
                      weight |-> weight_device(list[k], list[k].walk_dist, cost)] @@ list[k]
            ELSE list[k]]

\* sort_devices, algo == "bubble": one pass of the inner loop, j = from .. upto
RECURSIVE bubblePass(_, _, _)
bubblePass(arr, j, upto) ==
    IF j > upto THEN arr
    ELSE IF RatLess(arr[j].weight, arr[j + 1].weight)
         THEN bubblePass([arr EXCEPT ![j] = arr[j + 1], ![j + 1] = arr[j]], j + 1, upto)
         ELSE bubblePass(arr, j + 1, upto)

\* the outer loop left after its first pass
bubbleSortOnePass(arr, i) ==
    IF i >= Len(arr) THEN arr ELSE bubblePass(arr, 1, Len(arr) - 1)

\* the outer loop, i = 0 .. n - 1: the inner loop covers the pairs 1 .. n - i - 1
RECURSIVE bubbleSort(_, _)
bubbleSort(arr, i) ==
    IF i >= Len(arr) THEN arr
    ELSE bubbleSort(bubblePass(arr, 1, Len(arr) - i - 1), i + 1)

\* sort_devices, algo == "quick"
RECURSIVE quickSort(_)
quickSort(list) ==
    IF list = <<>> THEN <<>>
    ELSE LET pivot == Head(list)
             geq(d) == ~RatLess(d.weight, pivot.weight)
             lt(d) == RatLess(d.weight, pivot.weight)
         IN  quickSort(SelectSeq(Tail(list), geq)) \o <<pivot>> \o quickSort(SelectSeq(Tail(list), lt))

\* sorted(devices, key=weight, reverse=True): stable, descending
RECURSIVE sortedDescending(_)
sortedDescending(list) ==
    IF list = <<>> THEN <<>>
    ELSE LET rest == sortedDescending(SubSeq(list, 1, Len(list) - 1))
             x == list[Len(list)]
             ahead(d) == ~RatLess(d.weight, x.weight)
             behind(d) == RatLess(d.weight, x.weight)
         IN  SelectSeq(rest, ahead) \o <<x>> \o SelectSeq(rest, behind)

sort_devices(list, a) ==
    CASE a = "bubble" -> bubbleSort(list, 0)
      [] a = "quick"  -> quickSort(list)
      [] OTHER        -> sortedDescending(list)

---------------------------------------------------------------------------
(* Inputs of a pipeline run *)

Providers == {"alpaca", "gcoo", "lime"}     \* "lime" has no entry in PROVIDER_FEES
ProviderNames == {"Alpaca", "gcoo", "lime"} \* providername of the items recommend() loads
Algos == {"built_in", "bubble", "quick"}
Lats == {0, 400, 600}
Batteries == {9, 50}
Hours == {12, 23}
RouteDistances == {3000, 3100}              \* totalDistance answered by the route service

Feed(n, provs, lats, bats) ==
    {[i \in 1..n |-> Device(i, f[i][1], f[i][2], 0, f[i][3])] :
        f \in [1..n -> provs \X lats \X bats]}

Init ==
    /\ \/ /\ caller \in {"main", "api"}
          /\ \E n \in 0..MaxDevices : devices \in Feed(n, Providers, Lats, Batteries)
          /\ algo = "built_in"
          /\ pc = "start"
       \/ /\ caller = "recommend"
          /\ \E n \in 0..MaxDevices : devices \in Feed(n, ProviderNames, Lats, Batteries)
          /\ algo \in Algos
          /\ pc = "rec_start"
    /\ start = Point(0, 0)
    /\ dest = Point(2500, 0)
    /\ now \in Hours
    /\ nearby = <<>>
    /\ near = <<>>
    /\ path_m = RatInt(0)
    /\ ranked = <<>>
    /\ err = "none"
    /\ route = "none"
    /\ is_dark = FALSE
    /\ procs = <<>>
    /\ stack = <<>>
    /\ calls = <<>>

---------------------------------------------------------------------------
(* Steps *)

\* nearby = filterDevices(devices, src)
FilterDevices ==
    /\ pc = "start"
    /\ devices' = filterDevicesWrites(devices, start)
    /\ nearby' = filterDevices(devices, start)
    /\ pc' = "filtered"
    /\ calls' = Append(calls, "filterDevices")
    /\ UNCHANGED <<start, dest, now, caller, path_m, ranked, err, near, algo,
                 route, is_dark, procs, stack>>

\* if not nearby: print the "no device" message and end
NoDevices ==
    /\ pc = "filtered"
    /\ nearby = <<>>
    /\ pc' = "done"
    /\ UNCHANGED <<devices, start, dest, now, caller, nearby, path_m, ranked, err, calls, near, algo,
                 route, is_dark, procs, stack>>

\* the route request made whether or not a device was admitted
GetTmapDistanceUnguarded ==
    /\ pc = "filtered"
    /\ \E ok \in BOOLEAN :
          IF ok
          THEN route' = "ok" /\ \E d \in RouteDistances : path_m' = RatInt(d)
          ELSE route' = "failed"
               /\ path_m' = RatMul(RatInt(getDistance(start, dest)), Rat(12, 10))
    /\ pc' = "routed"
    /\ calls' = Append(calls, "getTmapDistance")
    /\ UNCHANGED <<devices, start, dest, now, caller, nearby, ranked, err, near, algo,
                 is_dark, procs, stack>>

\* the route request whose fallback is the great-circle distance itself
GetTmapDistanceRaw ==
    /\ pc = "filtered"
    /\ nearby # <<>>
    /\ \E ok \in BOOLEAN :
          IF ok
          THEN route' = "ok" /\ \E d \in RouteDistances : path_m' = RatInt(d)
          ELSE route' = "failed" /\ path_m' = RatInt(getDistance(start, dest))
    /\ pc' = "routed"
    /\ calls' = Append(calls, "getTmapDistance")
    /\ UNCHANGED <<devices, start, dest, now, caller, nearby, ranked, err, near, algo,
                 is_dark, procs, stack>>

\* path_m = getTmapDistance(src, dst): the service's totalDistance, or on any
\* exception getDistance(start, end) * 1.2
GetTmapDistance ==
    /\ pc = "filtered"
    /\ nearby # <<>>
    /\ \E ok \in BOOLEAN :
          IF ok
          THEN route' = "ok" /\ \E d \in RouteDistances : path_m' = RatInt(d)
          ELSE route' = "failed"
               /\ path_m' = RatMul(RatInt(getDistance(start, dest)), Rat(12, 10))
    /\ pc' = "routed"
    /\ calls' = Append(calls, "getTmapDistance")
    /\ UNCHANGED <<devices, start, dest, now, caller, nearby, ranked, err, near, algo,
                 is_dark, procs, stack>>

\* getPrices(nearby, path_m) as the script writes it: the call lacks the
\* positional argument now and raises TypeError before the body runs
MainGetPrices ==
    /\ pc = "routed"
    /\ caller = "main"
    /\ pc' = "error"
    /\ err' = "TypeError"
    /\ UNCHANGED <<devices, start, dest, now, caller, nearby, path_m, ranked, calls, near, algo,
                 route, is_dark, procs, stack>>

\* getPrices(nearby, path_m, now)
GetPrices ==
    /\ pc = "routed"
    /\ caller = "api"
    /\ devices' = getPrices(devices, nearby, path_m, now)
    /\ IF getPricesRaises(devices, nearby, now)
       THEN pc' = "error" /\ err' = "KeyError"
       ELSE pc' = "priced" /\ err' = err
    /\ calls' = Append(calls, "getPrices")
    /\ UNCHANGED <<start, dest, now, caller, nearby, path_m, ranked, near, algo,
                 route, is_dark, procs, stack>>

\* computeScore(nearby)
ComputeScore ==
    /\ pc = "priced"
    /\ IF computeScoreRaises(nearby)
       THEN devices' = devices /\ pc' = "error" /\ err' = "ValueError"
       ELSE devices' = computeScore(devices, nearby) /\ pc' = "scored" /\ err' = err
    /\ calls' = Append(calls, "computeScore")
    /\ UNCHANGED <<start, dest, now, caller, nearby, path_m, ranked, near, algo,
                 route, is_dark, procs, stack>>

\* quicksort(nearby)
Quicksort ==
    /\ pc = "scored"
    /\ ranked' = quicksort(devices, nearby)
    /\ pc' = "done"
    /\ calls' = Append(calls, "quicksort")
    /\ UNCHANGED <<devices, start, dest, now, caller, nearby, path_m, err, near, algo,
                 route, is_dark, procs, stack>>

\* recommend: devices = load_devices(), then the loop that fills near
RecNear ==
    /\ pc = "rec_start"
    /\ near' = nearCopies(devices, start)
    /\ pc' = "rec_near"
    /\ calls' = Append(calls, "load_devices")
    /\ UNCHANGED <<devices, start, dest, now, caller, nearby, path_m, ranked, err, algo,
                 route, is_dark, procs, stack>>

\* if not near: return []
RecReturnEmpty ==
    /\ pc = "rec_near"
    /\ near = <<>>
    /\ ranked' = <<>>
    /\ pc' = "done"
    /\ UNCHANGED <<devices, start, dest, now, caller, nearby, path_m, err, near, algo, calls,
                 route, is_dark, procs, stack>>

\* route_dist, _ = tmap_distance_time(start, end): the service's totalDistance,
\* or on any exception int(haversine(start, end) * 1.2)
RecTmapDistanceTime ==
    /\ pc = "rec_near"
    /\ near # <<>>
    /\ \E ok \in BOOLEAN :
          IF ok
          THEN route' = "ok" /\ \E d \in RouteDistances : path_m' = RatInt(d)
          ELSE route' = "failed"
               /\ path_m' = RatInt(IntPart(RatMul(
                               RatInt(haversine(start.x, start.y, dest.x, dest.y)), Rat(12, 10))))
    /\ pc' = "rec_routed"
    /\ calls' = Append(calls, "tmap_distance_time")
    /\ UNCHANGED <<devices, start, dest, now, caller, nearby, ranked, err, near, algo,
                 is_dark, procs, stack>>

\* the loop over near: calc_fee and weight_device for every device
RecCostAndWeight ==
    /\ pc = "rec_routed"
    /\ near' = costAndWeight(near, path_m, now)
    /\ IF firstFeeError(near, now) <= Len(near)
       THEN pc' = "error" /\ err' = "KeyError"
       ELSE pc' = "rec_priced" /\ err' = err
    /\ calls' = Append(calls, "calc_fee")
    /\ UNCHANGED <<devices, start, dest, now, caller, nearby, path_m, ranked, algo,
                 route, is_dark, procs, stack>>

\* ranked = sort_devices(near, algo=algo); return ranked
RecSortDevices ==
    /\ pc = "rec_priced"
    /\ ranked' = sort_devices(near, algo)
    /\ pc' = "done"
    /\ calls' = Append(calls, "sort_devices")
    /\ UNCHANGED <<devices, start, dest, now, caller, nearby, path_m, err, near, algo,
                 route, is_dark, procs, stack>>

Next ==
    \/ FilterDevices
    \/ NoDevices
    \/ GetTmapDistance
    \/ MainGetPrices
    \/ GetPrices
    \/ ComputeScore
    \/ Quicksort
    \/ RecNear
    \/ RecReturnEmpty
    \/ RecTmapDistanceTime
    \/ RecCostAndWeight
    \/ RecSortDevices

Spec == Init /\ [][Next]_vars

---------------------------------------------------------------------------
(* The functions called on their own, on inputs drawn from bounded sets *)

Idle(position) ==
    /\ dest = Point(2500, 0)
    /\ caller = "api"
    /\ ranked = <<>>
    /\ near = <<>>
    /\ algo = "built_in"
    /\ route = "none"
    /\ is_dark = FALSE
    /\ procs = <<>>
    /\ stack = <<>>
    /\ pc = position
    /\ err = "none"
    /\ calls = <<>>

\* the pipelines run to destinations at 209 m and 2500 m, where 1.2 times the
\* distance is 250.8 m and 3000 m
RouteDests == {Point(209, 0), Point(2500, 0)}

InitRoute ==
    /\ \/ /\ caller \in {"main", "api"}
          /\ \E n \in 0..MaxDevices : devices \in Feed(n, Providers, {0}, {50})
          /\ algo = "built_in"
          /\ pc = "start"
       \/ /\ caller = "recommend"
          /\ \E n \in 0..MaxDevices : devices \in Feed(n, ProviderNames, {0}, {50})
          /\ algo \in Algos
          /\ pc = "rec_start"
    /\ start = Point(0, 0)
    /\ dest \in RouteDests
    /\ now \in Hours
    /\ nearby = <<>>
    /\ near = <<>>
    /\ path_m = RatInt(0)
    /\ ranked = <<>>
    /\ err = "none"
    /\ route = "none"
    /\ is_dark = FALSE
    /\ procs = <<>>
    /\ stack = <<>>
    /\ calls = <<>>

SpecRoute == InitRoute /\ [][Next]_vars

\* filterDevices(devices, start)
FilterLats == {0, 400, 500, 501, 600}
FilterBatteries == {9, 10, 50}

InitFilter ==
    /\ \E n \in 0..MaxFeed : devices \in Feed(n, {"alpaca"}, FilterLats, FilterBatteries)
    /\ start \in {Point(0, 0), Point(100, 0)}
    /\ now = 12
    /\ nearby = <<>>
    /\ path_m = RatInt(0)
    /\ Idle("start")

SpecFilter == InitFilter /\ [][FilterDevices]_vars

\* getPrices(nearby, path_m, now)
AllProviders == {"alpaca", "gcoo", "socarelecle", "xingxing", "kickgoing", "swing", "lime"}
PathMetres == {0, 1, 3000, 3100}            \* 0, 0.004, 12 and 12.4 minutes
AllHours == {5, 6, 21, 22}

InitPrice ==
    /\ \E n \in 1..MaxCandidates :
          /\ devices \in Feed(n, AllProviders, {0}, {50})
          /\ nearby = Indices(n)
    /\ start = Point(0, 0)
    /\ now \in AllHours
    /\ \E d \in PathMetres : path_m = RatInt(d)
    /\ Idle("routed")

SpecPrice == InitPrice /\ [][GetPrices]_vars

\* computeScore(nearby)
Prices == {1000, 1300, 2000}
Dists == {0, 399, 600}

InitScore ==
    /\ \E n \in 0..MaxCandidates :
          /\ \E f \in [1..n -> Prices \X Dists] :
                devices = [i \in 1..n |->
                             [Device(i, "alpaca", f[i][2], 0, 50) EXCEPT
                                 !.price = f[i][1], !.dist = f[i][2]]]
          /\ nearby = Indices(n)
    /\ start = Point(0, 0)
    /\ now = 12
    /\ path_m = RatInt(0)
    /\ Idle("priced")

SpecScore == InitScore /\ [][ComputeScore]_vars

\* quicksort(nearby): scores one tolerance step apart around RelTolInv, and one far below
Scores == {RatInt(RelTolInv), RatInt(RelTolInv + 1), RatInt(RelTolInv + 2), RatInt(RelTolInv \div 2)}

InitSort ==
    /\ \E n \in 0..MaxLen :
          /\ \E f \in [1..n -> Scores] :
                devices = [i \in 1..n |-> [Device(i, "alpaca", 0, 0, 50) EXCEPT !.score = f[i]]]
          /\ nearby = Indices(n)
    /\ start = Point(0, 0)
    /\ now = 12
    /\ path_m = RatInt(0)
    /\ Idle("scored")

SpecSort == InitSort /\ [][Quicksort]_vars

\* isNight(now) and is_night(now), with and without a timestamp
Stamps == {[hour |-> h, minute |-> m] : h \in 0..23, m \in {0, 59}}

InitNight ==
    /\ devices = <<>>
    /\ start = Point(0, 0)
    /\ now \in Stamps \cup {None}
    /\ nearby = <<>>
    /\ path_m = RatInt(0)
    /\ Idle("start")

IsNight ==
    /\ pc = "start"
    /\ \E clock \in Stamps : is_dark' = isNight(nowOrClock(now, clock).hour)
    /\ pc' = "isNight"
    /\ UNCHANGED <<devices, start, dest, now, caller, nearby, path_m, ranked, err, near, algo,
                 route, procs, stack, calls>>

Is_night ==
    /\ pc = "start"
    /\ \E clock \in Stamps : is_dark' = is_night(nowOrClock(now, clock).hour)
    /\ pc' = "is_night"
    /\ UNCHANGED <<devices, start, dest, now, caller, nearby, path_m, ranked, err, near, algo,
                 route, procs, stack, calls>>

SpecNight == InitNight /\ [][IsNight \/ Is_night]_vars

\* quicksort(devices) one call at a time: stack holds, in the order of
\* evaluation of quicksort(left) + mid + quicksort(right), the calls still to
\* be made and the lists mid still to be concatenated; ranked is the output
\* built so far
InitQs ==
    /\ \E n \in 0..MaxLen :
          /\ \E f \in [1..n -> Scores] :
                devices = [i \in 1..n |-> [Device(i, "alpaca", 0, 0, 50) EXCEPT !.score = f[i]]]
          /\ nearby = Indices(n)
    /\ stack = <<Frame("call", nearby, 0, 0, 0)>>
    /\ start = Point(0, 0)
    /\ now = 12
    /\ path_m = RatInt(0)
    /\ dest = Point(2500, 0)
    /\ caller = "api"
    /\ ranked = <<>>
    /\ near = <<>>
    /\ algo = "built_in"
    /\ route = "none"
    /\ is_dark = FALSE
    /\ procs = <<>>
    /\ pc = "quicksort"
    /\ err = "none"
    /\ calls = <<>>

\* a call on two or more devices: pivot, left, mid, right and the two
\* recursive calls
QsCall ==
    /\ pc = "quicksort"
    /\ stack # <<>>
    /\ LET top == stack[1]
           n == Len(top.list)
       IN  /\ top.kind = "call"
           /\ n > 1
           /\ LET ref == top.list[(n \div 2) + 1]
              IN  stack' = << Frame("call", left(devices, top.list), top.depth + 1, n, ref),
                             Frame("mid", mid(devices, top.list), top.depth + 1, n, ref),
                             Frame("call", right(devices, top.list), top.depth + 1, n, ref) >>
                           \o Tail(stack)
    /\ UNCHANGED <<devices, start, dest, now, caller, nearby, path_m, ranked, pc, err, near,
                 algo, route, is_dark, procs, calls>>

\* a call on at most one device returns its argument, and mid is taken as it
\* is; the run is over when nothing is pending
QsReturn ==
    /\ pc = "quicksort"
    /\ stack # <<>>
    /\ stack[1].kind = "mid" \/ Len(stack[1].list) <= 1
    /\ ranked' = ranked \o stack[1].list
    /\ stack' = Tail(stack)
    /\ pc' = IF Tail(stack) = <<>> THEN "done" ELSE pc
    /\ UNCHANGED <<devices, start, dest, now, caller, nearby, path_m, err, near, algo,
                 route, is_dark, procs, calls>>

SpecQs == InitQs /\ [][QsCall \/ QsReturn]_vars

\* the interpreter keeps running the call it is in
SpecQsFair == SpecQs /\ WF_vars(QsCall \/ QsReturn)

\* sort_devices(devices, algo) on lists of weighted devices
Weights == {RatInt(1), RatInt(2), RatInt(3)}

InitSortDevices ==
    /\ \E n \in 0..MaxLen :
          \E w \in [1..n -> Weights] :
              near = [k \in 1..n |-> [id |-> k, weight |-> w[k]]]
    /\ algo \in Algos
    /\ devices = <<>>
    /\ start = Point(0, 0)
    /\ now = 12
    /\ nearby = <<>>
    /\ path_m = RatInt(0)
    /\ dest = Point(2500, 0)
    /\ caller = "recommend"
    /\ ranked = <<>>
    /\ route = "none"
    /\ is_dark = FALSE
    /\ procs = <<>>
    /\ stack = <<>>
    /\ pc = "rec_priced"
    /\ err = "none"
    /\ calls = <<>>

SpecSortDevices == InitSortDevices /\ [][RecSortDevices]_vars

---------------------------------------------------------------------------
(* Two pipelines run side by side over one list of Device objects, without
   locking. Each has its own start, trip distance, candidate list and result;
   the Device objects are shared. A step is one call of the pipeline. *)

Pipelines == {1, 2}
ConcLats == {0, 400, 600}
ConcStarts == {Point(0, 0), Point(100, 0)}
ConcPaths == {250, 3000}

\* what the caller reads in the returned list: the fields of its Device objects
readResult(devs, list) ==
    [k \in DOMAIN list |-> [id |-> devs[list[k]].id, dist |-> devs[list[k]].dist,
                            price |-> devs[list[k]].price, score |-> devs[list[k]].score]]

InitConc ==
    /\ \E n \in 1..MaxDevices : devices \in Feed(n, {"alpaca", "gcoo"}, ConcLats, {50})
    /\ \E st \in ConcStarts, path \in ConcPaths :
          procs = [p \in Pipelines |->
                      [start |-> IF p = 1 THEN Point(0, 0) ELSE st,
                       path_m |-> RatInt(IF p = 1 THEN 3000 ELSE path),
                       nearby |-> <<>>, ranked |-> <<>>, pc |-> "start"]]
    /\ start = Point(0, 0)
    /\ now = 12
    /\ nearby = <<>>
    /\ path_m = RatInt(0)
    /\ stack = <<>>
    /\ is_dark = FALSE
    /\ route = "none"
    /\ dest = Point(2500, 0)
    /\ caller = "api"
    /\ ranked = <<>>
    /\ near = <<>>
    /\ algo = "built_in"
    /\ pc = "start"
    /\ err = "none"
    /\ calls = <<>>

\* nearby = filterDevices(devices, src); with no candidate the run ends
PipeFilterDevices(p) ==
    /\ procs[p].pc = "start"
    /\ devices' = filterDevicesWrites(devices, procs[p].start)
    /\ LET list == filterDevices(devices, procs[p].start)
       IN  procs' = [procs EXCEPT ![p].nearby = list,
                                  ![p].pc = IF list = <<>> THEN "done" ELSE "filtered"]
    /\ UNCHANGED <<start, dest, now, caller, nearby, path_m, ranked, pc, err, near, algo,
                 route, is_dark, stack, calls>>

\* getPrices(nearby, path_m, now)
PipeGetPrices(p) ==
    /\ procs[p].pc = "filtered"
    /\ devices' = getPrices(devices, procs[p].nearby, procs[p].path_m, now)
    /\ procs' = [procs EXCEPT ![p].pc = "priced"]
    /\ UNCHANGED <<start, dest, now, caller, nearby, path_m, ranked, pc, err, near, algo,
                 route, is_dark, stack, calls>>

\* computeScore(nearby)
PipeComputeScore(p) ==
    /\ procs[p].pc = "priced"
    /\ devices' = computeScore(devices, procs[p].nearby)
    /\ procs' = [procs EXCEPT ![p].pc = "scored"]
    /\ UNCHANGED <<start, dest, now, caller, nearby, path_m, ranked, pc, err, near, algo,
                 route, is_dark, stack, calls>>

\* ranked = quicksort(nearby), read by the caller as it is returned
PipeQuicksort(p) ==
    /\ procs[p].pc = "scored"
    /\ procs' = [procs EXCEPT
                    ![p].ranked = readResult(devices, quicksort(devices, procs[p].nearby)),
                    ![p].pc = "done"]
    /\ UNCHANGED <<devices, start, dest, now, caller, nearby, path_m, ranked, pc, err, near,
                 algo, route, is_dark, stack, calls>>

NextConc ==
    \E p \in Pipelines :
        \/ PipeFilterDevices(p)
        \/ PipeGetPrices(p)
        \/ PipeComputeScore(p)
        \/ PipeQuicksort(p)

SpecConc == InitConc /\ [][NextConc]_vars

---------------------------------------------------------------------------
(* Properties *)

scoreOf(i) == devices[i].score

\* position of the first occurrence of reference i in list, 0 when absent
FirstAt(list, i) ==
    IF \E a \in DOMAIN list : list[a] = i
    THEN CHOOSE a \in DOMAIN list : list[a] = i /\ \A b \in 1..(a - 1) : list[b] # i
    ELSE 0

Sorted == pc = "done" /\ calls # <<>> /\ calls[Len(calls)] = "quicksort"

\* C1: the output of quicksort is non-increasing in score, except that two
\* elements whose scores are within tolerance of each other may come in either
\* order: an element is never emitted before one of a higher score that is not
\* within tolerance of it.
C1_OutputNonIncreasing ==
    Sorted =>
        \A i, j \in DOMAIN ranked :
            i < j => \/ ~RatLess(scoreOf(ranked[i]), scoreOf(ranked[j]))
                     \/ isclose(scoreOf(ranked[i]), scoreOf(ranked[j]))

\* C2: a list already in descending score order (equal and near-equal
\* neighbours included) is returned by quicksort exactly as it was given.
C2_SortedInputUnchanged ==
    (/\ Sorted
     /\ \A k \in 1..(Len(nearby) - 1) :
            ~RatLess(scoreOf(nearby[k]), scoreOf(nearby[k + 1])))
        => ranked = nearby

\* C3: two candidates whose scores are within tolerance of each other leave
\* quicksort in the relative order they had in the input (stated on the first
\* place each of them takes in the output).
C3_StableWithinTolerance ==
    Sorted =>
        \A p, q \in DOMAIN nearby :
            (p < q /\ isclose(scoreOf(nearby[p]), scoreOf(nearby[q])))
                => /\ FirstAt(ranked, nearby[p]) > 0
                   /\ FirstAt(ranked, nearby[q]) > 0
                   /\ FirstAt(ranked, nearby[p]) < FirstAt(ranked, nearby[q])

\* C6: computeScore on an empty candidate collection is a no-op: it raises no
\* error and changes nothing.
C6_EmptyScoreNoOp ==
    (nearby = <<>> /\ "computeScore" \in {calls[k] : k \in DOMAIN calls})
        => err = "none" /\ pc # "error"


\* C4: filterDevices admits exactly the devices with battery >= 10 and
\* distance from the start <= 500, both bounds inclusive: every returned device
\* meets both, and every input device that meets both is returned.
C4_FilterAdmitsExactly ==
    pc = "filtered" =>
        LET meets(i) == /\ devices[i].battery >= 10
                        /\ Abs(devices[i].lat - start.x) <= 500
        IN  /\ \A k \in DOMAIN nearby :
                  /\ nearby[k] \in DOMAIN devices
                  /\ meets(nearby[k])
                  /\ devices[nearby[k]].dist <= 500
            /\ \A i \in DOMAIN devices :
                  meets(i) => \E k \in DOMAIN nearby : nearby[k] = i

\* devices at 0 m, 400 m and 600 m, radius 500: the first two are admitted
C4_Witness ==
    /\ pc = "filtered"
    /\ start = Point(0, 0)
    /\ Len(devices) = 3
    /\ devices[1].lat = 0 /\ devices[2].lat = 400 /\ devices[3].lat = 600
    /\ \A i \in 1..3 : devices[i].battery = 50
    /\ nearby = <<1, 2>>

\* C5: computeScore on a non-empty list sets every candidate's score to
\* priceScore * 0.2 + distScore * 0.8, with priceScore = 100 for all when all
\* prices are equal and (priceMax - price) / (priceMax - priceMin) * 100
\* otherwise, and distScore = max(0, (radius - distance) / radius * 100).
C5_ScoreFormula ==
    pc = "scored" =>
        \A k \in DOMAIN nearby :
            LET d == devices[nearby[k]]
                cand == {devices[nearby[a]] : a \in DOMAIN nearby}
                priceMax == CHOOSE v \in {c.price : c \in cand} : \A c \in cand : c.price <= v
                priceMin == CHOOSE v \in {c.price : c \in cand} : \A c \in cand : c.price >= v
                priceScore == IF \A c \in cand : c.price = d.price
                              THEN RatInt(100)
                              ELSE Rat((priceMax - d.price) * 100, priceMax - priceMin)
                distScore == IF d.dist >= 500 THEN RatInt(0) ELSE Rat((500 - d.dist) * 100, 500)
            IN  d.score = RatAdd(RatMul(priceScore, Rat(1, 5)), RatMul(distScore, Rat(4, 5)))

\* two candidates of price 1000 at 0 m and 399 m: both get priceScore 100
C5_Witness ==
    /\ pc = "scored"
    /\ Len(nearby) = 2
    /\ devices[1].price = 1000 /\ devices[2].price = 1000
    /\ devices[1].dist = 0 /\ devices[2].dist = 399
    /\ devices[1].score = RatInt(100)
    /\ devices[2].score = Rat(904, 25)

\* C7: for every registered provider, non-negative duration and timeband the
\* fee is base + per_min * ceil(minutes), the tariff being the day / night one
\* for gcoo and socarelecle and the flat one otherwise; alpaca over 12.4
\* minutes costs 2450.
C7_FeeFormula ==
    pc = "priced" =>
        \A k \in DOMAIN nearby :
            LET d == devices[nearby[k]]
                night == now >= 22 \/ now < 6
                billed == CHOOSE m \in 0..100 :
                             /\ m * 250 * path_m.den >= path_m.num
                             /\ (m - 1) * 250 * path_m.den < path_m.num
                tariff == CASE d.provider = "alpaca"      -> <<500, 150>>
                            [] d.provider = "gcoo"        -> IF night THEN <<1200, 180>> ELSE <<800, 180>>
                            [] d.provider = "socarelecle" -> IF night THEN <<1500, 150>> ELSE <<500, 150>>
                            [] d.provider = "xingxing"    -> <<1500, 200>>
                            [] d.provider = "kickgoing"   -> <<1000, 120>>
                            [] d.provider = "swing"       -> <<1200, 150>>
            IN  /\ d.price = tariff[1] + tariff[2] * billed
                /\ (d.provider = "alpaca" /\ path_m = RatInt(3100)) => d.price = 2450

\* alpaca over 3100 m, 12.4 minutes, at night
C7_Witness ==
    /\ pc = "priced"
    /\ path_m = RatInt(3100)
    /\ now = 22
    /\ \E k \in DOMAIN nearby :
          devices[nearby[k]].provider = "alpaca" /\ devices[nearby[k]].price = 2450

Unregistered(i) == feeKeyError(devices[i].provider, isNight(now))
Called(f) == \E k \in DOMAIN calls : calls[k] = f

\* C8: a candidate whose provider has no fee-table entry makes pricing fail
\* with an error that ends the run: no run gets past pricing with it, no
\* score is computed and no ranked result is returned, pricing writes no price
\* on it, and it stays in the candidate list.
C8_UnregisteredAborts ==
    /\ [](( /\ pc \notin {"start", "filtered", "routed"}
            /\ \E k \in DOMAIN nearby : Unregistered(nearby[k]))
          => /\ pc = "error"
             /\ Called("getPrices") => err = "KeyError"
             /\ ~Called("computeScore") /\ ~Called("quicksort")
             /\ ranked = <<>>)
    /\ [][ /\ \A i \in DOMAIN devices :
                Unregistered(i) => devices'[i].price = devices[i].price
           /\ pc # "start" => nearby' = nearby ]_vars

\* a run ended by the KeyError of the second candidate, the first one priced
C8_Witness ==
    /\ pc = "error"
    /\ err = "KeyError"
    /\ Len(nearby) = 2
    /\ ~Unregistered(nearby[1]) /\ devices[nearby[1]].price > 0
    /\ Unregistered(nearby[2])

\* C9: when no device passes the filter the run ends at once with the empty
\* result and without error: neither the route distance, nor pricing, scoring
\* or ranking is invoked.
C9_EmptyEndsAtOnce ==
    /\ (caller \in {"main", "api"} /\ pc # "start" /\ nearby = <<>>)
          => /\ pc \in {"filtered", "done"}
             /\ calls = <<"filterDevices">>
             /\ err = "none"
             /\ ranked = <<>>
             /\ path_m = RatInt(0)
    /\ (caller = "recommend" /\ pc # "rec_start" /\ near = <<>>)
          => /\ pc \in {"rec_near", "done"}
             /\ calls = <<"load_devices">>
             /\ err = "none"
             /\ ranked = <<>>
             /\ path_m = RatInt(0)

\* a feed of two devices, none admitted, and the run over
C9_Witness ==
    /\ pc = "done"
    /\ caller = "main"
    /\ Len(devices) = 2
    /\ nearby = <<>>
    /\ calls = <<"filterDevices">>

PipelineOrder == <<"filterDevices", "getTmapDistance", "getPrices", "computeScore", "quicksort">>

\* C10: a query with at least one admitted device (all of registered
\* providers) runs filter, route distance, pricing, scoring and ranking in that
\* order, and ends by returning all admitted candidates, never in an error.
C10_PipelineReturnsRanking ==
    (nearby # <<>> /\ \A k \in DOMAIN nearby : ~Unregistered(nearby[k]))
        => /\ pc # "error"
           /\ Len(calls) <= Len(PipelineOrder)
           /\ calls = SubSeq(PipelineOrder, 1, Len(calls))
           /\ pc = "done" =>
                 /\ Len(ranked) = Len(nearby)
                 /\ \A k \in DOMAIN nearby : \E a \in DOMAIN ranked : ranked[a] = nearby[k]

\* the fee of a registered provider for a trip of path metres
FeeFor(provider, night, path) ==
    LET billed == CHOOSE m \in 0..100 :
                     /\ m * 250 * path.den >= path.num
                     /\ (m - 1) * 250 * path.den < path.num
        tariff == CASE provider = "alpaca" -> <<500, 150>>
                    [] provider = "gcoo"   -> IF night THEN <<1200, 180>> ELSE <<800, 180>>
    IN  tariff[1] + tariff[2] * billed

Straight == IF dest.x >= start.x THEN dest.x - start.x ELSE start.x - dest.x
NightNow == now >= 22 \/ now < 6

\* every fee written so far is the fee for a trip of path metres
FeesFrom(path) ==
    /\ pc \in {"priced", "scored"} \/ Sorted =>
          \A k \in DOMAIN nearby :
              devices[nearby[k]].price
                  = FeeFor(devices[nearby[k]].provider, NightNow, path)
    /\ pc = "rec_priced" \/ (pc = "done" /\ caller = "recommend") =>
          \A k \in DOMAIN near :
              near[k].cost = FeeFor(lower(near[k].provider), NightNow, path)

C12_FallbackObservable ==
    route = "failed" => \A d \in RouteDistances : path_m # RatInt(d)

\* C13: filterDevices has no side effects on its input: a call leaves every
\* field of every input device, admitted or rejected, and the input
\* collection as they were before the call.
C13_FilterLeavesInputUnchanged ==
    [][pc = "start" /\ pc' = "filtered" => devices' = devices]_vars

\* the Device objects as the feed delivers them
Fresh == [i \in DOMAIN devices |->
            Device(devices[i].id, devices[i].provider, devices[i].lat, devices[i].lon,
                   devices[i].battery)]

\* the result of the pipeline run alone on the feed from st over path metres
Alone(st, path) ==
    LET list == filterDevices(Fresh, st)
        filtered == filterDevicesWrites(Fresh, st)
        priced == getPrices(filtered, list, path, now)
        scored == computeScore(priced, list)
    IN  IF list = <<>> THEN <<>>
        ELSE readResult(scored, quicksort(scored, list))

\* C14: two pipelines run concurrently without locking over the same feed,
\* with different starts or trip distances, each return the ordered result
\* (candidates, distances, prices, scores) they return when run alone,
\* whatever the interleaving of their steps.
C14_ConcurrentAsAlone ==
    \A p \in DOMAIN procs :
        procs[p].pc = "done" => procs[p].ranked = Alone(procs[p].start, procs[p].path_m)

\* C15: for every timestamp supplied, isNight (and is_night) returns true
\* exactly when its hour h has h >= 22 or h < 6, whatever the clock shows:
\* 22:00 and 05:59 are night, 06:00 and 21:59 are not.
C15_NightByHour ==
    (pc \in {"isNight", "is_night"} /\ now # None) =>
        /\ is_dark <=> (now.hour >= 22 \/ now.hour < 6)
        /\ now = [hour |-> 22, minute |-> 0] => is_dark
        /\ now = [hour |-> 5, minute |-> 59] => is_dark
        /\ now = [hour |-> 6, minute |-> 0] => ~is_dark
        /\ now = [hour |-> 21, minute |-> 59] => ~is_dark

C15_Witness ==
    /\ pc = "isNight"
    /\ now = [hour |-> 22, minute |-> 0]
    /\ is_dark

\* every pending recursive call has a list strictly shorter than its caller's,
\* without the caller's pivot device, and the recursion is no deeper than the
\* list is long
RecursiveCallsShorter ==
    /\ \A k \in DOMAIN stack :
          (stack[k].kind = "call" /\ stack[k].depth > 0) =>
              /\ Len(stack[k].list) < stack[k].parent
              /\ \A j \in DOMAIN stack[k].list : stack[k].list[j] # stack[k].pivotRef
              /\ stack[k].depth + Len(stack[k].list) <= Len(nearby)
    /\ pc = "quicksort" => stack # <<>>
    /\ (pc = "done" /\ calls = <<>>) => stack = <<>>

\* C16: quicksort terminates on every finite list, lists of equal and of
\* near-equal scores included: every recursive call gets a list strictly
\* shorter than its caller's, the pivot device being in neither left nor
\* right, and the call returns.
C16_Terminates == []RecursiveCallsShorter /\ <>(pc = "done")

\* four equal scores: the first call has passed on two empty lists
C16_Witness ==
    /\ Len(nearby) = 4
    /\ \A i \in DOMAIN devices : devices[i].score = RatInt(RelTolInv)
    /\ Len(stack) = 3
    /\ stack[1] = Frame("call", <<>>, 1, 4, 3)
    /\ stack[3] = Frame("call", <<>>, 1, 4, 3)

\* run one call at a time, quicksort returns what the recursive definition gives
QsAgree == (pc = "done" /\ calls = <<>>) => ranked = quicksort(devices, nearby)

\* C17: quicksort returns a permutation of its input: as many devices as it
\* was given, each of them exactly once, also when scores differ from the
\* pivot score and are within tolerance of it.
C17_OutputIsPermutation ==
    Sorted =>
        /\ Len(ranked) = Len(nearby)
        /\ \A k \in DOMAIN nearby :
              Cardinality({j \in DOMAIN ranked : ranked[j] = nearby[k]}) = 1

SortedDevices == pc = "done" /\ caller = "recommend" /\ Called("sort_devices")

\* position of a device in the list near
PlaceInNear(d) == CHOOSE k \in DOMAIN near : near[k] = d

\* ranked holds every device of near once, heaviest first
PermutationByWeight ==
    /\ Len(ranked) = Len(near)
    /\ \A k \in DOMAIN near :
          Cardinality({j \in DOMAIN ranked : ranked[j] = near[k]}) = 1
    /\ \A j, k \in DOMAIN ranked :
          j < k => ~RatLess(ranked[j].weight, ranked[k].weight)

====
